---- MODULE Spec2Model ----
(***************************************************************************)
(* Codeswitchador: the corpus tag checker (tools/check_tags.py) and the    *)
(* language-identification wordlists (lidlists.py).                        *)
(*                                                                         *)
(* The tag checker is a Python 2 script: one loop over the lines of        *)
(* standard input.  Its state is the module-level names linenum, line and  *)
(* tags together with what it has printed.  A text line is a sequence of   *)
(* one-character strings; printed text is a string.                        *)
(***************************************************************************)
EXTENDS Integers, Sequences, FiniteSets, TLC

VARIABLES chk, twin, lookup

vars == <<chk, twin, lookup>>

(***************************************************************************)
(* Bounds of the model.                                                    *)
(***************************************************************************)
MaxLines == 3
MaxTokens == 2
TwinMaxLines == 3

(***************************************************************************)
(* Characters and text helpers.                                            *)
(***************************************************************************)
\* Characters str.rstrip() and str.split() treat as whitespace (those modelled).
Whitespace == {" ", "\t", "\n"}

\* Characters that end a line of the stream reader.
LineTerminators == {"\n"}

IsSpace(c) == c \in Whitespace

\* repr() of one character inside a unicode literal.
Escape(c) ==
    IF c = "\t" THEN "\\t"
    ELSE IF c = "\n" THEN "\\n"
    ELSE c

RECURSIVE Join(_)
\* The characters of s as one string.
Join(s) == IF s = <<>> THEN "" ELSE Head(s) \o Join(Tail(s))

RECURSIVE Escaped(_)
Escaped(s) == IF s = <<>> THEN "" ELSE Escape(Head(s)) \o Escaped(Tail(s))

\* "{!r}".format(line) for a unicode line.
Repr(s) == "u'" \o Escaped(s) \o "'"

RECURSIVE StripBothEnds(_)
\* line.strip() in place of line.rstrip(): leading whitespace is dropped too.
StripBothEnds(s) ==
    IF s = <<>> THEN <<>>
    ELSE IF IsSpace(s[Len(s)]) THEN StripBothEnds(SubSeq(s, 1, Len(s) - 1))
    ELSE IF IsSpace(Head(s)) THEN StripBothEnds(Tail(s))
    ELSE s

RECURSIVE rstrip(_)
\* line.rstrip(): drop every trailing whitespace character.
rstrip(s) ==
    IF s = <<>> THEN <<>>
    ELSE IF IsSpace(s[Len(s)]) THEN rstrip(SubSeq(s, 1, Len(s) - 1))
    ELSE s

RECURSIVE SplitAcc(_, _, _)
SplitAcc(s, cur, acc) ==
    IF s = <<>>
    THEN (IF cur = <<>> THEN acc ELSE Append(acc, cur))
    ELSE IF IsSpace(Head(s))
         THEN SplitAcc(Tail(s), <<>>, IF cur = <<>> THEN acc ELSE Append(acc, cur))
         ELSE SplitAcc(Tail(s), Append(cur, Head(s)), acc)

\* line.split(): the maximal runs of non-whitespace characters, in order.
split(s) == SplitAcc(s, <<>>, <<>>)

(***************************************************************************)
(* The external splitter eval_codeswitch.split_token.                      *)
(***************************************************************************)
HasDelimiter(tok) == \E i \in 1..Len(tok) : tok[i] = "/"

LastDelimiter(tok) ==
    CHOOSE i \in 1..Len(tok) :
        /\ tok[i] = "/"
        /\ \A j \in (i + 1)..Len(tok) : tok[j] # "/"

\* The message the splitter's ValueError carries.
SplitError(tok) == "cannot split token " \o Repr(tok)

\* (surface, tag) of a token of the form surface/tag; a ValueError otherwise.
split_token(tok) ==
    IF HasDelimiter(tok)
    THEN [ok |-> TRUE,
          surface |-> Join(SubSeq(tok, 1, LastDelimiter(tok) - 1)),
          tag |-> Join(SubSeq(tok, LastDelimiter(tok) + 1, Len(tok))),
          msg |-> ""]
    ELSE [ok |-> FALSE, surface |-> "", tag |-> "", msg |-> SplitError(tok)]

(***************************************************************************)
(* The tag checker.                                                        *)
(***************************************************************************)
GOOD_TAGS == {"e", "s", "n"}

\* The message of the ValueError of unpacking zip() of no pairs into two names.
UnpackError == "need more than 0 values to unpack"

\* One report: a first printed line (the error, or "Bad tag: <tag>") and the
\* "From line N: <repr of the line>" line printed right after it.
DecodeReport(msg, n, line) ==
    [kind |-> "decode", detail |-> msg, linenum |-> n, text |-> Repr(line)]

BadTagReport(tag, n, line) ==
    [kind |-> "badtag", detail |-> tag, linenum |-> n, text |-> Repr(line)]

Unbound == [bound |-> FALSE, val |-> <<>>]

Bound(ts) == [bound |-> TRUE, val |-> ts]

\* The interpreter state before the loop: linenum = 0, tags not yet bound.
InitChecker ==
    [pc |-> "READING", linenum |-> 0, raw |-> <<>>, line |-> <<>>,
     tags |-> Unbound, out |-> <<>>, lastnum |-> 0]

EndsWithTerminator(s) == s # <<>> /\ s[Len(s)] \in LineTerminators

\* The stream can still yield a line: the last one read ended with a terminator.
CanRead(s, max) ==
    /\ s.pc = "READING"
    /\ s.linenum < max
    /\ (s.linenum = 0 \/ EndsWithTerminator(s.raw))

\* The loop body without its "linenum += 1".
AfterReadUncounted(s, l) ==
    [s EXCEPT !.pc = "VALIDATING",
              !.raw = l,
              !.line = rstrip(l),
              !.out = <<>>]

\* for line in reader: linenum += 1; line = line.rstrip()
AfterRead(s, l) ==
    [s EXCEPT !.pc = "VALIDATING",
              !.linenum = s.linenum + 1,
              !.raw = l,
              !.line = rstrip(l),
              !.out = <<>>]

\* [split_token(token) for token in line.split()]
Pairs(line) == [i \in 1..Len(split(line)) |-> split_token(split(line)[i])]

FirstFailure(pairs) ==
    CHOOSE i \in 1..Len(pairs) :
        /\ ~pairs[i].ok
        /\ \A j \in 1..(i - 1) : pairs[j].ok

\* The try statement: what is printed by the except clause, and the binding of
\* tags after it.
TryUnpack(s) ==
    LET pairs == Pairs(s.line) IN
    IF \E i \in 1..Len(pairs) : ~pairs[i].ok
    THEN [printed |-> <<DecodeReport(pairs[FirstFailure(pairs)].msg, s.linenum, s.line)>>,
          tags |-> s.tags]
    ELSE IF Len(pairs) = 0
    THEN [printed |-> <<DecodeReport(UnpackError, s.linenum, s.line)>>,
          tags |-> s.tags]
    ELSE [printed |-> <<>>,
          tags |-> Bound([i \in 1..Len(pairs) |-> pairs[i].tag])]

RECURSIVE BadTags(_, _, _)
\* for tag in tags: if tag not in GOOD_TAGS: print ...
BadTags(ts, n, line) ==
    IF ts = <<>> THEN <<>>
    ELSE (IF Head(ts) \notin GOOD_TAGS
          THEN <<BadTagReport(Head(ts), n, line)>>
          ELSE <<>>) \o BadTags(Tail(ts), n, line)

\* The body of the loop after the line is read: the try statement, then the
\* loop over tags (a NameError, uncaught, when tags was never bound).
AfterValidate(s) ==
    LET t == TryUnpack(s) IN
    IF ~t.tags.bound
    THEN [s EXCEPT !.pc = "ABORTED",
                   !.out = t.printed,
                   !.lastnum = IF t.printed = <<>> THEN s.lastnum ELSE s.linenum]
    ELSE LET o == t.printed \o BadTags(t.tags.val, s.linenum, s.line) IN
         [s EXCEPT !.pc = "READING",
                   !.tags = t.tags,
                   !.out = o,
                   !.lastnum = IF o = <<>> THEN s.lastnum ELSE s.linenum]

\* The reader is exhausted: the loop ends and the script exits normally.
AfterEnd(s) == [s EXCEPT !.pc = "DONE"]

(***************************************************************************)
(* Input lines: tokens joined by single spaces, optional leading and       *)
(* trailing blanks, and a terminator (absent only on the last line).       *)
(***************************************************************************)
TokenSamples == { <<"a", "/", "e">>, <<"a", "/", "x">>, <<"a">> }

TokenLists == UNION { [1..n -> TokenSamples] : n \in 0..MaxTokens }

RECURSIVE JoinTokens(_)
JoinTokens(tl) ==
    IF tl = <<>> THEN <<>>
    ELSE IF Len(tl) = 1 THEN Head(tl)
    ELSE Head(tl) \o <<" ">> \o JoinTokens(Tail(tl))

Leads == { <<>>, <<" ">> }
Trails == { <<>>, <<" ">>, <<"\t">> }
Terms == { <<"\n">>, <<>> }

InputLines ==
    { ld \o JoinTokens(tl) \o tr \o tm :
        ld \in Leads, tl \in TokenLists, tr \in Trails, tm \in Terms } \ { <<>> }

\* The lines of the two-stream comparison: at most one token, no padding.
TwinLines ==
    { JoinTokens(tl) \o <<"\n">> : tl \in { t \in TokenLists : Len(t) <= 1 } }

(***************************************************************************)
(* Wordlists (lidlists.py).                                                *)
(***************************************************************************)
SPANISH_TOP32 ==
    <<"de", "la", "que", "el", "en", "y", "no", "es", "los", "un", "se", "por", "me",
      "para", "con", "lo", "te", "del", "las", "q", "una", "mi", "si", "al", "como", "ya",
      "tu", "pero", "esta", "su", "yo", "le">>

SPANISH_32PLUS ==
    <<"mas", "hay", "hoy", "cuando", "o", "este", "todo", "nos", "muy", "ser", "sin",
      "son", "d", "todos", "gracias", "mejor", "feliz", "eso", "solo", "jajaja", "ver",
      "tiene", "ahora", "quiero", "ni", "porque", "bien", "tengo", "vida", "estoy", "sus",
      "hace", "desde", "hasta", "tan", "siempre", "nada", "quien", "va", "mis", "dia",
      "hacer", "les", "ha", "xd", "fue", "dios", "buen", "donde", "x", "puede", "gente",
      "eres", "mucho", "bueno", "vamos", "ese", "voy", "amor", "soy", "nuevo", "algo",
      "tus", "esa", "saludos", "jaja", "nunca", "jajajaja", "sobre", "gran", "vez",
      "alguien", "buenos", "cada", "sea", "buena", "creo", "mundo", "cosas", "uno",
      "estas", "fin", "estar", "asi", "dice", "pa", "ti", "semana", "tiempo", "menos",
      "ir", "dos", "tener", "da", "hola", "casa", "tienes", "personas", "mal", "entre",
      "pues", "otra", "esto", "puedo", "e", "venezuela", "estamos", "tienen", "era",
      "buenas", "hora", "muchas", "noche", "contra", "espero", "otro", "nuestro", "k",
      "falta", "toda", "mismo", "verdad", "van", "antes", "pasa", "nadie", "decir",
      "poco", "cuenta", "persona", "igual", "amo", "todas", "excelente", "paso", "favor",
      "quiere", "gusta", "veces", "gobierno", "tanto", "nueva", "han", "dias", "san",
      "presidente", "t", "sabe", "grande", "trabajo", "nuestra", "saber", "parece",
      "sino", "tenemos", "sera", "estan", "puedes", "aqui", "somos", "parte", "viendo",
      "mil", "mujer", "vas", "sabes", "momento", "debe", "hombre", "jajajajaja", "unos",
      "dicen", "sigue", "amigos", "amigo", "final", "aun", "ke", "estos", "partido",
      "tal", "chile", "muchos", "tambien", "tarde", "ayer", "abrazo", "estado", "primer",
      "poder", "mejores", "aunque", "dormir", "dar", "programa", "felicidades", "viene",
      "horas", "deja", "pueden", "casi", "esos", "quieres", "navidad", "viernes",
      "seguir", "foto", "dijo", "mientras", "equipo", "ve", "luego", "mujeres", "ganas",
      "primera", "mucha", "hacen", "veo">>

ENGLISH_TOP32 ==
    <<"the", "to", "i", "in", "of", "and", "you", "for", "is", "on", "your", "it", "my",
      "with", "this", "at", "are", "that", "be", "just", "have", "new", "from", "not",
      "we", "will", "out", "what", "by", "can", "all", "how">>

ENGLISH_32PLUS ==
    <<"if", "but", "so", "get", "do", "like", "more", "as", "about", "via", "when", "one",
      "an", "up", "our", "was", "or", "u", "check", "who", "they", "good", "free", "make",
      "people", "has", "now", "love", "know", "time", "want", "day", "see", "us", "best",
      "need", "go", "great", "video", "only", "he", "some", "today", "why", "there",
      "its", "than", "think", "life", "their", "am", "never", "his", "happy", "back",
      "should", "home", "really", "very", "here", "after", "got", "going", "first",
      "made", "facebook", "been", "would", "way", "over", "still", "world", "take",
      "find", "twitter", "posted", "work", "business", "please", "help", "money", "photo",
      "always", "thanks", "any", "much", "follow", "them", "most", "too", "come",
      "because", "every", "last", "online", "say", "live", "look", "news", "then", "off",
      "into", "right", "may", "where", "had", "hope", "her", "things", "someone", "did",
      "better", "year", "being", "next", "top", "marketing", "thank", "even", "give",
      "many", "could", "social", "looking", "use", "feel", "were", "let", "she", "blog",
      "big", "watch", "keep", "other", "real", "start", "read", "something", "man",
      "before", "getting", "own", "must", "those", "stop", "join", "everyone", "without",
      "does", "which", "win", "ur", "show", "down", "long", "try", "using", "two", "ever",
      "tell", "god", "learn", "these", "makes", "internet", "says", "media", "working",
      "lol", "days", "change", "another", "morning", "thing", "nice", "call", "friends",
      "week", "hey", "buy", "well", "making", "night", "while", "same", "wish", "support",
      "nothing", "doing", "few", "him", "also", "part", "bad", "through", "years",
      "little", "old", "liked", "site", "said", "against", "end", "everything", "having",
      "music", "google", "person", "phone", "hate", "iphone", "around", "believe", "im",
      "miss", "sure", "coming", "ask">>

WordlistNames == {"SPANISH_TOP32", "SPANISH_32PLUS", "ENGLISH_TOP32", "ENGLISH_32PLUS"}

\* SPANISH_32PLUS with one of its words entered a second time.
WordlistWithRepeat(name) ==
    CASE name = "SPANISH_TOP32" -> SPANISH_TOP32
      [] name = "SPANISH_32PLUS" -> SPANISH_32PLUS \o <<"hay">>
      [] name = "ENGLISH_TOP32" -> ENGLISH_TOP32
      [] name = "ENGLISH_32PLUS" -> ENGLISH_32PLUS

\* ENGLISH_32PLUS with "no", a word of SPANISH_TOP32, entered as well.
WordlistWithShared(name) ==
    CASE name = "SPANISH_TOP32" -> SPANISH_TOP32
      [] name = "SPANISH_32PLUS" -> SPANISH_32PLUS
      [] name = "ENGLISH_TOP32" -> ENGLISH_TOP32
      [] name = "ENGLISH_32PLUS" -> ENGLISH_32PLUS \o <<"no">>

\* The list a name of lidlists.py is bound to.
Wordlist(name) ==
    CASE name = "SPANISH_TOP32" -> SPANISH_TOP32
      [] name = "SPANISH_32PLUS" -> SPANISH_32PLUS
      [] name = "ENGLISH_TOP32" -> ENGLISH_TOP32
      [] name = "ENGLISH_32PLUS" -> ENGLISH_32PLUS

\* Nothing has been read from the wordlists yet.
InitLookup == [list |-> "none", rank |-> 0, word |-> ""]

\* Read access: the word of list `name` at 0-indexed rank r.
EntryAt(name, r) == [list |-> name, rank |-> r, word |-> Wordlist(name)[r + 1]]

(***************************************************************************)
(* Actions of the tag checker on one input stream.                         *)
(***************************************************************************)
Init ==
    /\ chk = InitChecker
    /\ twin = InitChecker
    /\ lookup = InitLookup

ReadLine ==
    /\ CanRead(chk, MaxLines)
    /\ \E l \in InputLines : chk' = AfterRead(chk, l)
    /\ UNCHANGED <<twin, lookup>>

Validate ==
    /\ chk.pc = "VALIDATING"
    /\ chk' = AfterValidate(chk)
    /\ UNCHANGED <<twin, lookup>>

EndOfStream ==
    /\ chk.pc = "READING"
    /\ chk' = AfterEnd(chk)
    /\ UNCHANGED <<twin, lookup>>

Next == ReadLine \/ Validate \/ EndOfStream

Spec == Init /\ [][Next]_vars

(***************************************************************************)
(* Two runs of the tag checker, each on its own input stream.              *)
(***************************************************************************)
FirstReadLine ==
    /\ CanRead(chk, TwinMaxLines)
    /\ \E l \in TwinLines : chk' = AfterRead(chk, l)
    /\ UNCHANGED <<twin, lookup>>

SecondReadLine ==
    /\ CanRead(twin, TwinMaxLines)
    /\ \E l \in TwinLines : twin' = AfterRead(twin, l)
    /\ UNCHANGED <<chk, lookup>>

SecondValidate ==
    /\ twin.pc = "VALIDATING"
    /\ twin' = AfterValidate(twin)
    /\ UNCHANGED <<chk, lookup>>

SecondEndOfStream ==
    /\ twin.pc = "READING"
    /\ twin' = AfterEnd(twin)
    /\ UNCHANGED <<chk, lookup>>

TwinNext ==
    \/ FirstReadLine
    \/ Validate
    \/ EndOfStream
    \/ SecondReadLine
    \/ SecondValidate
    \/ SecondEndOfStream

TwinSpec == Init /\ [][TwinNext]_vars

(***************************************************************************)
(* Read access to the wordlists.                                           *)
(***************************************************************************)
Lookup ==
    /\ \E name \in WordlistNames :
          \E r \in 0..(Len(Wordlist(name)) - 1) : lookup' = EntryAt(name, r)
    /\ UNCHANGED <<chk, twin>>

WordlistNext == Lookup

WordlistSpec == Init /\ [][WordlistNext]_vars

(***************************************************************************)
(* Notions the properties below are stated in.                             *)
(***************************************************************************)
\* The loop body has run to its end (or to the uncaught exception) on the
\* line numbered s.linenum.
Processed(s) == s.linenum >= 1 /\ s.pc # "VALIDATING"

\* The whitespace-delimited tokens of the line as read.
TokensOf(s) == split(s.raw)

\* The splitter signals failure for at least one token of the line.
DecodeFails(s) ==
    \E i \in 1..Len(TokensOf(s)) : ~split_token(TokensOf(s)[i]).ok

IsDecode(d) == d.kind = "decode"

IsBadTag(d) == d.kind = "badtag"

\* The input line without its line terminator.
WithoutTerminator(l) ==
    IF EndsWithTerminator(l) THEN SubSeq(l, 1, Len(l) - 1) ELSE l

\* k is where the trailing whitespace of l begins: everything after position k
\* is whitespace and position k, if any, is not.
TrailingCut(l, k) ==
    /\ k \in 0..Len(l)
    /\ \A j \in (k + 1)..Len(l) : l[j] \in Whitespace
    /\ k > 0 => l[k] \notin Whitespace

\* The tags of the tokens of the line, as the splitter decodes them.
DecodedTags(s) ==
    [i \in 1..Len(TokensOf(s)) |-> split_token(TokensOf(s)[i]).tag]

NotAllowed(tag) == tag \notin {"e", "s", "n"}

(***************************************************************************)
(* Properties.                                                             *)
(***************************************************************************)
\* C1: on a line with a token the splitter rejects, exactly one decode-failure
\* report is printed, carrying the failure message, the 1-based number of the
\* line and the line text, and the checker goes on to the next line.
C1_DecodeFailureReportedThenContinues ==
    (Processed(chk) /\ DecodeFails(chk)) =>
        /\ Len(SelectSeq(chk.out, IsDecode)) = 1
        /\ chk.out[1].kind = "decode"
        /\ chk.out[1].linenum = chk.linenum
        /\ chk.out[1].text = Repr(chk.line)
        /\ \E i \in 1..Len(TokensOf(chk)) :
              /\ ~split_token(TokensOf(chk)[i]).ok
              /\ chk.out[1].detail = split_token(TokensOf(chk)[i]).msg
        /\ chk.pc # "ABORTED"

\* C2: while processing a line on which token decoding fails, no "Bad tag"
\* report is printed, whatever lines came before.
C2_NoBadTagOnDecodeFailure ==
    (Processed(chk) /\ DecodeFails(chk)) =>
        SelectSeq(chk.out, IsBadTag) = <<>>

\* C3: no decode failure and no invalid tag is fatal: the checker never aborts,
\* whatever the first or any later line is.
C3_NeverAborts == chk.pc # "ABORTED"

\* C4: on a line all of whose tokens decode, the "Bad tag" reports printed are
\* exactly one per token whose tag is outside {e, s, n}, in token order, each
\* with the number and the text of that line.
C4_OneBadTagReportPerBadToken ==
    (Processed(chk) /\ ~DecodeFails(chk)) =>
        LET reports == SelectSeq(chk.out, IsBadTag)
            bad == SelectSeq(DecodedTags(chk), NotAllowed)
        IN  /\ Len(reports) = Len(bad)
            /\ \A i \in 1..Len(reports) :
                  /\ reports[i].detail = bad[i]
                  /\ reports[i].linenum = chk.linenum
                  /\ reports[i].text = Repr(chk.line)

\* C4 restricted to the lines that have at least one token.
BadTagReportsOfTokenLines ==
    (Processed(chk) /\ ~DecodeFails(chk) /\ TokensOf(chk) # <<>>) =>
        LET reports == SelectSeq(chk.out, IsBadTag)
            bad == SelectSeq(DecodedTags(chk), NotAllowed)
        IN  /\ chk.out = reports
            /\ Len(reports) = Len(bad)
            /\ \A i \in 1..Len(reports) :
                  /\ reports[i].detail = bad[i]
                  /\ reports[i].linenum = chk.linenum
                  /\ reports[i].text = Repr(chk.line)

\* C5: a line with zero tokens (empty, or whitespace only) produces no report.
C5_NoReportForTokenlessLine ==
    (Processed(chk) /\ TokensOf(chk) = <<>>) => chk.out = <<>>

\* C6: the line counter is 0 before any line is read and goes up by exactly 1
\* with every line read and at no other time; every report carries the counter
\* value of the line being processed, so printed line numbers never decrease.
C6_Step ==
    /\ (chk.pc = "READING" /\ chk'.pc = "VALIDATING") =>
            chk'.linenum = chk.linenum + 1
    /\ ~(chk.pc = "READING" /\ chk'.pc = "VALIDATING") =>
            chk'.linenum = chk.linenum
    /\ \A i \in 1..Len(chk'.out) :
            /\ chk'.out[i].linenum = chk'.linenum
            /\ chk'.out[i].linenum >= 1
            /\ chk'.out[i].linenum >= chk.lastnum
    /\ chk'.lastnum >= chk.lastnum

C6_LineNumbering == (chk.linenum = 0 /\ chk.out = <<>>) /\ [][C6_Step]_vars

\* Line 2 printed a report and line 3 has just been read.
C6_Witness ==
    /\ chk.pc = "VALIDATING"
    /\ chk.linenum = 3
    /\ chk.lastnum = 2

\* C7: two runs that have the same line at the same position print the same
\* reports while processing it, whatever the earlier lines of each were.
C7_ReportsDependOnLineOnly ==
    ( /\ Processed(chk)
      /\ Processed(twin)
      /\ chk.linenum = twin.linenum
      /\ chk.raw = twin.raw ) => chk.out = twin.out

\* C8: each of the four wordlists is non-empty, and the word at any rank of a
\* list is not the empty string and occurs at no other rank of that list.
C8_WordlistsWellFormed ==
    /\ \A name \in WordlistNames : Len(Wordlist(name)) > 0
    /\ lookup.list \in WordlistNames =>
          /\ lookup.word # ""
          /\ \A r \in 0..(Len(Wordlist(lookup.list)) - 1) :
                r # lookup.rank => Wordlist(lookup.list)[r + 1] # lookup.word

\* The last entry of the longest list has been read.
C8_Witness ==
    /\ lookup.list = "ENGLISH_32PLUS"
    /\ lookup.rank = Len(ENGLISH_32PLUS) - 1
    /\ lookup.word = "ask"

\* C9 as claimed: only the line terminator is stripped, so the line that is
\* tokenized and quoted in every report is the input line minus its terminator.
C9_OnlyTerminatorStripped ==
    Processed(chk) =>
        /\ chk.line = WithoutTerminator(chk.raw)
        /\ \A i \in 1..Len(chk.out) :
              chk.out[i].text = Repr(WithoutTerminator(chk.raw))

\* C9 as amended: all trailing whitespace is stripped (the terminator and any
\* blanks before it) and nothing else, so the line that is tokenized and
\* quoted in every report is the input line minus its trailing whitespace.
C9_TrailingWhitespaceStripped ==
    Processed(chk) =>
        \E k \in 0..Len(chk.raw) :
            /\ TrailingCut(chk.raw, k)
            /\ chk.line = SubSeq(chk.raw, 1, k)
            /\ \A i \in 1..Len(chk.out) :
                  chk.out[i].text = Repr(SubSeq(chk.raw, 1, k))

\* A reported line with a leading blank, an interior blank and a blank before
\* its terminator.
C9_Witness ==
    /\ Processed(chk)
    /\ chk.out # <<>>
    /\ Len(TokensOf(chk)) = 2
    /\ chk.raw[1] = " "
    /\ chk.raw[Len(chk.raw)] = "\n"
    /\ chk.raw[Len(chk.raw) - 1] \in {" ", "\t"}

\* C10: the four wordlists are pairwise disjoint (the word at any rank of a
\* list occurs in none of the other three) and each TOP32 list has exactly 32
\* entries.
C10_WordlistsDisjoint ==
    /\ Len(Wordlist("SPANISH_TOP32")) = 32
    /\ Len(Wordlist("ENGLISH_TOP32")) = 32
    /\ lookup.list \in WordlistNames =>
          \A name \in WordlistNames \ {lookup.list} :
              \A r \in 0..(Len(Wordlist(name)) - 1) :
                  Wordlist(name)[r + 1] # lookup.word

\* The last of the top 32 Spanish words has been read.
C10_Witness ==
    /\ lookup.list = "SPANISH_TOP32"
    /\ lookup.rank = 31
    /\ lookup.word = "le"

====
